---- MODULE Spec2Model ----
(***************************************************************************)
(* A model of jaesve: the JSON flattener (JsonPointer, JsonPacket), the    *)
(* quote-aware byte scanner (JsonScan) and the input driver (main,         *)
(* to_csv).  Text is modelled as sequences of one-character strings so     *)
(* that path construction and JSON Pointer resolution are computed.        *)
(***************************************************************************)
EXTENDS Integers, Sequences, FiniteSets, TLC

VARIABLES
    \* JsonPointer (src/models/assets.rs)
    json, ident, base_path, queue, pbuf, yielded, nones,
    \* JsonPacket (src/models.rs)
    object, plist, cursor, options, formated, sink, ppc,
    \* JsonScan (src/models/assets.rs)
    iter, prev, state, offsets, seen, items,
    \* main / to_csv (src/main.rs, src/models.rs)
    input, by_line, line_number, stdin, stdin_pos, file_list, pos, reader, mpc,
    events, written,
    \* OutputBuilder (src/models/assets.rs)
    blocks, called, output,
    \* a second JsonPointer over the same document
    queue2, pbuf2, yielded2, nones2

flatVars == <<json, ident, base_path, queue, pbuf, yielded, nones>>
packVars == <<object, plist, cursor, options, formated, sink, ppc>>
scanVars == <<iter, prev, state, offsets, seen, items>>
mainVars == <<input, by_line, line_number, stdin, stdin_pos, file_list, pos, reader, mpc,
              events, written>>
builderVars == <<blocks, called, output>>
twinVars == <<queue2, pbuf2, yielded2, nones2>>
vars == <<flatVars, packVars, scanVars, mainVars, builderVars, twinVars>>

(***************************************************************************)
(* Bounds of the model.                                                    *)
(***************************************************************************)
MaxNodes == 4        \* nodes (containers and leaves) of a document
MaxNones == 2        \* calls of next() made after the first None
MaxBytes == 6        \* items the byte source of a scanner yields
MaxInputs == 3       \* input sources named on the command line
MaxLines == 3        \* lines of a line-mode stream
MaxCalls == 4        \* setter calls made on one builder

(***************************************************************************)
(* Text helpers.                                                           *)
(***************************************************************************)
Last(s) == s[Len(s)]
Front(s) == SubSeq(s, 1, Len(s) - 1)

Digit(d) == CASE d = 0 -> "0" [] d = 1 -> "1" [] d = 2 -> "2" [] d = 3 -> "3"
              [] d = 4 -> "4" [] d = 5 -> "5" [] d = 6 -> "6" [] d = 7 -> "7"
              [] d = 8 -> "8" [] d = 9 -> "9"

\* usize::to_string / Number::to_string of a natural number: decimal digits,
\* most significant first, no leading zero.
RECURSIVE to_string(_)
to_string(n) == IF n < 10 THEN <<Digit(n)>>
                ELSE to_string(n \div 10) \o <<Digit(n % 10)>>

\* bool::to_string
bool_to_string(b) == IF b THEN <<"t", "r", "u", "e">>
                     ELSE <<"f", "a", "l", "s", "e">>

(***************************************************************************)
(* serde_json::Value.  Every value is a record of the same shape; `t` is   *)
(* the enum variant, `kids` the entries of a Map (key k, value v) in       *)
(* iteration order or the elements of a Vec (k unused).                    *)
(***************************************************************************)
NoKids == <<>>
jNull == [t |-> "jNull", str |-> <<>>, num |-> 0, bool |-> FALSE, kids |-> NoKids]
jString(s) == [t |-> "jString", str |-> s, num |-> 0, bool |-> FALSE, kids |-> NoKids]
jNumber(n) == [t |-> "jNumber", str |-> <<>>, num |-> n, bool |-> FALSE, kids |-> NoKids]
jBool(b) == [t |-> "jBool", str |-> <<>>, num |-> 0, bool |-> b, kids |-> NoKids]
jObject(entries) == [t |-> "jObject", str |-> <<>>, num |-> 0, bool |-> FALSE, kids |-> entries]
jArray(elems) == [t |-> "jArray", str |-> <<>>, num |-> 0, bool |-> FALSE,
                  kids |-> [i \in 1..Len(elems) |-> [k |-> <<>>, v |-> elems[i]]]]

is_object(v) == v.t = "jObject"
is_array(v) == v.t = "jArray"

\* The documents the model flattens: every value of at most MaxNodes nodes
\* over these leaves and object keys.  One key contains '/', so that the
\* unescaped path of a key can meet the path of a nested key.
Leaves == {jString(<<"x">>), jNumber(12), jBool(TRUE), jNull}
Keys == {<<"a">>, <<"b">>, <<"a", "/", "b">>}

\* the ways to key the entries of an object: sequences of distinct keys
KeySeqs == {ks \in UNION {[1..n -> Keys] : n \in 0..Cardinality(Keys)} :
               \A i, j \in 1..Len(ks) : i # j => ks[i] # ks[j]}
Entries(ks, f) == [i \in 1..Len(f) |-> [k |-> ks[i], v |-> f[i]]]

RECURSIVE Tree(_), Forest(_)
\* sequences of values with exactly n nodes in total
Forest(n) == IF n = 0 THEN {<<>>}
             ELSE UNION {{<<t>> \o f : t \in Tree(m), f \in Forest(n - m)} : m \in 1..n}
\* values with exactly n nodes
Tree(n) ==
    (IF n = 1 THEN Leaves ELSE {})
    \cup {jArray(f) : f \in Forest(n - 1)}
    \cup {jObject(Entries(p[1], p[2])) :
             p \in {q \in KeySeqs \X Forest(n - 1) : Len(q[1]) = Len(q[2])}}
\* the documents of the model, by number of nodes
Docs(n) == Tree(n)
DocSizes == 1..MaxNodes
BasePaths == {<<>>, <<"/", "r">>}

(***************************************************************************)
(* JType and the records of the flattener.                                 *)
(***************************************************************************)
\* impl From<&JsonValue> for JType
JTypeFrom(v) == CASE v.t = "jObject" -> "Object"
                  [] v.t = "jArray" -> "Array"
                  [] v.t = "jString" -> "String"
                  [] v.t = "jNumber" -> "Number"
                  [] v.t = "jBool" -> "Bool"
                  [] v.t = "jNull" -> "Null"

None == [some |-> FALSE, text |-> <<>>]
Some(s) == [some |-> TRUE, text |-> s]

\* OutputBuilder::new().ident(i).pointer(p).value(v).type_of(t); `node` is not
\* a field of the program: it remembers the value the record was made for.
OutputBuilder(i, p, v, t, n) ==
    [ident |-> i, pointer |-> p, value |-> v, jtype |-> t, node |-> n]

\* the (value, path) pairs of the work queue
Pending(v, p) == [json |-> v, path |-> p]

\* path + "/" + key and path + "/" + i.to_string()
KeyPath(s, k) == s \o <<"/">> \o k
IndexPath(s, i) == s \o <<"/">> \o to_string(i)

(***************************************************************************)
(* JsonPointer: new, parse_next, Iterator::next.                           *)
(***************************************************************************)
\* the type_of(..) argument of the object branch: value.as_ref().unwrap().0 is
\* the entry popped from the queue, that is the object being expanded
ContainerType(value, child) == JTypeFrom(value.json)

\* ExpandObject with a fault: a child that is an array gets no record
RECURSIVE ExpandObject_NoArrayRecord(_, _, _, _, _)
ExpandObject_NoArrayRecord(value, i, q, pb, id) ==
    IF i > Len(value.json.kids) THEN [queue |-> q, pbuf |-> pb]
    ELSE LET k == value.json.kids[i].k
             v == value.json.kids[i].v
             new_path == KeyPath(value.path, k)
             pb1 == IF is_object(v)
                    THEN Append(pb, OutputBuilder(id, new_path, None, ContainerType(value, v), v))
                    ELSE pb
         IN ExpandObject_NoArrayRecord(value, i + 1, Append(q, Pending(v, new_path)), pb1, id)

\* the `for (k, v) in map.iter()` loop of the jObject arm, from entry i on
RECURSIVE ExpandObject(_, _, _, _, _)
ExpandObject(value, i, q, pb, id) ==
    IF i > Len(value.json.kids) THEN [queue |-> q, pbuf |-> pb]
    ELSE LET k == value.json.kids[i].k
             v == value.json.kids[i].v
             new_path == KeyPath(value.path, k)
             pb1 == IF is_object(v)
                    THEN Append(pb, OutputBuilder(id, new_path, None, ContainerType(value, v), v))
                    ELSE pb
             pb2 == IF is_array(v)
                    THEN Append(pb1, OutputBuilder(id, new_path, None, ContainerType(value, v), v))
                    ELSE pb1
         IN ExpandObject(value, i + 1, Append(q, Pending(v, new_path)), pb2, id)

\* ExpandArray with a fault: the last element is not queued
RECURSIVE ExpandArray_DropLast(_, _, _)
ExpandArray_DropLast(value, i, q) ==
    IF i >= Len(value.json.kids) THEN q
    ELSE ExpandArray_DropLast(value, i + 1,
                     Append(q, Pending(value.json.kids[i].v, IndexPath(value.path, i - 1))))

\* the `for (i, v) in a.iter().enumerate()` loop of the jArray arm
RECURSIVE ExpandArray(_, _, _)
ExpandArray(value, i, q) ==
    IF i > Len(value.json.kids) THEN q
    ELSE ExpandArray(value, i + 1,
                     Append(q, Pending(value.json.kids[i].v, IndexPath(value.path, i - 1))))

\* the text a leaf arm stores in value(Some(..))
LeafText(v) == CASE v.t = "jString" -> v.str
                 [] v.t = "jNumber" -> to_string(v.num)
                 [] v.t = "jBool" -> bool_to_string(v.bool)
                 [] v.t = "jNull" -> <<"n", "u", "l", "l">>

\* LeafRecord with a fault: the jNull arm stores value(None)
LeafRecord_NullAbsent(value, id) ==
    OutputBuilder(id, value.path,
                  IF value.json.t = "jNull" THEN None ELSE Some(LeafText(value.json)),
                  JTypeFrom(value.json), value.json)

\* the record a leaf arm pushes
LeafRecord(value, id) ==
    OutputBuilder(id, value.path, Some(LeafText(value.json)), JTypeFrom(value.json), value.json)

\* ParseLoop with a fault: a popped object or array also gets a record of its
\* own, at its own path
RECURSIVE ParseLoop_RecordOnPop(_, _, _)
ParseLoop_RecordOnPop(q, pb, id) ==
    IF q = <<>> THEN [queue |-> q, pbuf |-> pb]
    ELSE LET value == Head(q)
             rest == Tail(q)
             own == OutputBuilder(id, value.path, None, JTypeFrom(value.json), value.json)
         IN  IF is_object(value.json)
             THEN LET r == ExpandObject(value, 1, rest, Append(pb, own), id)
                  IN ParseLoop_RecordOnPop(r.queue, r.pbuf, id)
             ELSE IF is_array(value.json)
             THEN ParseLoop_RecordOnPop(ExpandArray(value, 1, rest), Append(pb, own), id)
             ELSE [queue |-> rest, pbuf |-> Append(pb, LeafRecord(value, id))]

\* the `loop` of parse_next: pops entries until a leaf was pushed to pbuf or
\* the queue is empty
RECURSIVE ParseLoop(_, _, _)
ParseLoop(q, pb, id) ==
    IF q = <<>> THEN [queue |-> q, pbuf |-> pb]
    ELSE LET value == Head(q)
             rest == Tail(q)
         IN  IF is_object(value.json)
             THEN LET r == ExpandObject(value, 1, rest, pb, id)
                  IN ParseLoop(r.queue, r.pbuf, id)
             ELSE IF is_array(value.json)
             THEN ParseLoop(ExpandArray(value, 1, rest), pb, id)
             ELSE [queue |-> rest, pbuf |-> Append(pb, LeafRecord(value, id))]

\* Vec::pop on pbuf: the index of the element parse_next returns
PopIndex(pb) == Len(pb)

\* JsonPointer::new
JsonPointerNew(j, id, base) ==
    /\ json = j
    /\ ident = id
    /\ base_path = base
    /\ queue = <<Pending(j, base)>>
    /\ pbuf = <<>>
    /\ yielded = <<>>
    /\ nones = 0

\* Iterator::next = parse_next, one call
IterNext ==
    LET r == ParseLoop(queue, pbuf, ident)
    IN  /\ nones <= MaxNones
        /\ queue' = r.queue
        /\ IF r.pbuf = <<>>
           THEN /\ pbuf' = r.pbuf
                /\ nones' = nones + 1
                /\ UNCHANGED yielded
           ELSE /\ yielded' = Append(yielded, r.pbuf[PopIndex(r.pbuf)])
                /\ pbuf' = [i \in 1..(Len(r.pbuf) - 1) |->
                               IF i < PopIndex(r.pbuf) THEN r.pbuf[i] ELSE r.pbuf[i + 1]]
                /\ UNCHANGED nones
        /\ UNCHANGED <<json, ident, base_path>>
        /\ UNCHANGED <<packVars, scanVars, mainVars, builderVars, twinVars>>

(***************************************************************************)
(* Values of the variables of a component that a specification leaves out. *)
(***************************************************************************)
IdleFlat ==
    /\ json = jNull /\ ident = 0 /\ base_path = <<>> /\ queue = <<>>
    /\ pbuf = <<>> /\ yielded = <<>> /\ nones = 0
IdlePack ==
    /\ object = jNull /\ plist = <<>> /\ cursor = 0 /\ sink = <<>> /\ ppc = "idle"
    /\ options = [hide_type |-> FALSE, separator |-> <<",">>, regex |-> "any"]
    /\ formated = <<>>
IdleScan ==
    /\ iter = <<>> /\ prev = "None" /\ state = "OutQuotes" /\ offsets = <<0, 0>>
    /\ seen = <<>> /\ items = <<>>
IdleMain ==
    /\ input = <<>> /\ by_line = FALSE /\ line_number = 0
    /\ stdin = <<>> /\ stdin_pos = 0
    /\ file_list = <<>> /\ pos = 0
    /\ reader = "none" /\ mpc = "idle" /\ events = <<>> /\ written = <<>>
IdleBuilder ==
    /\ blocks = <<>> /\ called = <<>> /\ output = <<>>
IdleTwin ==
    /\ queue2 = <<>> /\ pbuf2 = <<>> /\ yielded2 = <<>> /\ nones2 = 0

(***************************************************************************)
(* Spec: one document drained through the lazy iterator.                   *)
(***************************************************************************)
Idents == {7}
Init ==
    /\ \E n \in DocSizes : \E j \in Docs(n), b \in BasePaths, id \in Idents :
          JsonPointerNew(j, id, b)
    /\ IdlePack /\ IdleScan /\ IdleMain /\ IdleBuilder /\ IdleTwin
Next == IterNext
Spec == Init /\ [][Next]_vars

(***************************************************************************)
(* serde_json's Value::pointer, as JsonPacket::print calls it.             *)
(***************************************************************************)
\* str::split('/'): the pieces of p between '/' characters
RECURSIVE Split(_, _)
Split(p, cur) == IF p = <<>> THEN <<cur>>
                 ELSE IF Head(p) = "/" THEN <<cur>> \o Split(Tail(p), <<>>)
                 ELSE Split(Tail(p), Append(cur, Head(p)))

\* str::replace(from, to) for a two-character pattern `from`
RECURSIVE Replace2(_, _, _, _)
Replace2(x, c1, c2, to) ==
    IF Len(x) < 2 THEN x
    ELSE IF x[1] = c1 /\ x[2] = c2 THEN <<to>> \o Replace2(Tail(Tail(x)), c1, c2, to)
    ELSE <<Head(x)>> \o Replace2(Tail(x), c1, c2, to)

\* x.replace("~1", "/").replace("~0", "~")
Unescape(x) == Replace2(Replace2(x, "~", "1", "/"), "~", "0", "~")

IsDigit(c) == c \in {"0", "1", "2", "3", "4", "5", "6", "7", "8", "9"}
DigitValue(c) == CHOOSE d \in 0..9 : Digit(d) = c
RECURSIVE ParseDigits(_, _)
ParseDigits(x, acc) == IF x = <<>> THEN acc
                       ELSE ParseDigits(Tail(x), acc * 10 + DigitValue(Head(x)))

\* parse_index: -1 stands for None
parse_index(x) ==
    IF x = <<>> \/ (\E i \in 1..Len(x) : ~IsDigit(x[i])) THEN -1
    ELSE IF Head(x) = "0" /\ Len(x) # 1 THEN -1
    ELSE ParseDigits(x, 0)

Found(v) == [found |-> TRUE, val |-> v]
NotFound == [found |-> FALSE, val |-> jNull]

\* the try_fold over the tokens
RECURSIVE Walk(_, _)
Walk(target, tokens) ==
    IF tokens = <<>> THEN Found(target)
    ELSE LET token == Unescape(Head(tokens)) IN
         IF is_object(target)
         THEN LET hit == {i \in 1..Len(target.kids) : target.kids[i].k = token}
              IN IF hit = {} THEN NotFound
                 ELSE Walk(target.kids[CHOOSE i \in hit : TRUE].v, Tail(tokens))
         ELSE IF is_array(target)
         THEN LET x == parse_index(token)
              IN IF x < 0 \/ x >= Len(target.kids) THEN NotFound
                 ELSE Walk(target.kids[x + 1].v, Tail(tokens))
         ELSE NotFound

\* Value::pointer
Pointer(v, p) == IF p = <<>> THEN Found(v)
                 ELSE IF Head(p) # "/" THEN NotFound
                 ELSE Walk(v, Tail(Split(p, <<>>)))

(***************************************************************************)
(* Properties of the lazy iterator.                                        *)
(***************************************************************************)
IsPrefix(a, b) == Len(a) <= Len(b) /\ SubSeq(b, 1, Len(a)) = a
\* q is p followed by '/' and more segments
Descendant(p, q) == Len(q) > Len(p) + 1 /\ IsPrefix(p \o <<"/">>, q)
IsContainer(v) == is_object(v) \/ is_array(v)
Drained == nones > 0

\* C1: a container record at pointer P is yielded before every record whose
\* pointer is a descendant of P.
C1_ContainerBeforeDescendants ==
    \A i, j \in 1..Len(yielded) :
        (~yielded[i].value.some /\ Descendant(yielded[i].pointer, yielded[j].pointer))
            => i < j

\* C2: a container record carries the structural type of the child it points
\* to (Object for an object child, Array for an array child).
C2_ContainerTypeIsChildType ==
    \A i \in 1..Len(yielded) :
        ~yielded[i].value.some => yielded[i].jtype = JTypeFrom(yielded[i].node)

\* C6: with an empty base path, the pointer of every leaf record resolves in
\* the document to a value with the record's text and the record's type.
C6_LeafPointerResolves ==
    base_path = <<>> =>
        \A i \in 1..Len(yielded) :
            yielded[i].value.some =>
                LET hit == Pointer(json, yielded[i].pointer)
                IN  /\ hit.found
                    /\ ~IsContainer(hit.val)
                    /\ LeafText(hit.val) = yielded[i].value.text
                    /\ JTypeFrom(hit.val) = yielded[i].jtype

\* C7: no two records of one document have the same pointer.
C7_PointersUnique ==
    LET recs == yielded \o pbuf
    IN \A i, j \in 1..Len(recs) : recs[i].pointer = recs[j].pointer => i = j

\* C8: an empty object or array as the root yields no record, and no record of
\* a document whose root is a container has the base path as its pointer.
C8_NoRecordForRoot ==
    /\ (IsContainer(json) /\ json.kids = <<>>) => (yielded = <<>> /\ pbuf = <<>>)
    /\ IsContainer(json) =>
          \A i \in 1..Len(yielded \o pbuf) : (yielded \o pbuf)[i].pointer # base_path
C8_Witness == Drained /\ IsContainer(json) /\ json.kids = <<>> /\ base_path # <<>>

\* C9: the value of a record is absent exactly when the record was made for an
\* object or array; a leaf record has a value, "null" for a JSON null.
C9_ValueAbsentIffContainer ==
    \A i \in 1..Len(yielded) :
        LET r == yielded[i] IN
        /\ ~r.value.some <=> IsContainer(r.node)
        /\ r.node.t = "jNull" => r.value = Some(<<"n", "u", "l", "l">>)
        /\ r.node.t = "jString" => r.value = Some(r.node.str)
C9_Witness ==
    /\ Drained
    /\ \E i, j \in 1..Len(yielded) :
          /\ ~yielded[i].value.some
          /\ yielded[j].node.t = "jNull" /\ yielded[j].value.some

\* The records a document calls for, by a depth-first walk: one for every
\* leaf, and one for every object or array that is the child of an object.
RECURSIVE Ref(_, _)
RECURSIVE RefKids(_, _, _)
Ref(v, path) ==
    IF IsContainer(v) THEN RefKids(v, path, 1)
    ELSE <<[pointer |-> path, leaf |-> TRUE]>>
RefKids(v, path, i) ==
    IF i > Len(v.kids) THEN <<>>
    ELSE LET c == v.kids[i].v
             p == IF is_object(v) THEN KeyPath(path, v.kids[i].k) ELSE IndexPath(path, i - 1)
         IN (IF is_object(v) /\ IsContainer(c)
             THEN <<[pointer |-> p, leaf |-> FALSE]>> ELSE <<>>)
            \o Ref(c, p) \o RefKids(v, path, i + 1)
\* a yielded or buffered record, as the walk describes records
AsRef(r) == [pointer |-> r.pointer, leaf |-> r.value.some]
AsRefs(recs) == [i \in 1..Len(recs) |-> AsRef(recs[i])]
CountIn(seq, x) == Cardinality({i \in 1..Len(seq) : seq[i] = x})
Range(seq) == {seq[i] : i \in 1..Len(seq)}

\* what holds of every state of the iterator
C19_State ==
    LET ref == Ref(json, base_path)
        out == AsRefs(yielded)
    IN /\ Len(yielded) + Len(pbuf) <= Len(ref)
       /\ Drained =>
             /\ queue = <<>> /\ pbuf = <<>>
             /\ Len(out) = Len(ref)
             /\ \A x \in Range(ref) : x.leaf => CountIn(out, x) = CountIn(ref, x)
\* what holds of every call of next()
C19_Step ==
    /\ \A x \in Range(pbuf) : CountIn(yielded' \o pbuf', x) >= CountIn(yielded \o pbuf, x)
    /\ IF Drained
       THEN nones' = nones + 1 /\ UNCHANGED <<yielded, queue, pbuf>>
       ELSE \/ /\ Len(yielded') = Len(yielded) + 1
               /\ SubSeq(yielded', 1, Len(yielded)) = yielded
               /\ nones' = 0
            \/ yielded' = yielded /\ nones' = 1 /\ queue' = <<>> /\ pbuf' = <<>>

\* C19: the iterator ends: every call before the first None yields one
\* record and there are no more records than the document calls for; a
\* buffered record stays buffered until it is yielded; at the first None
\* the queue and the buffer are empty, every leaf has been yielded exactly
\* once, and every later call returns None again and changes nothing.
C19_IteratorTerminates == []C19_State /\ [][C19_Step]_vars
C19_Witness ==
    /\ nones = 2 /\ queue = <<>> /\ pbuf = <<>>
    /\ Len(yielded) = 3
    /\ \E i, j \in 1..3 : yielded[i].value.some /\ ~yielded[j].value.some

\* the pointers of the leaf elements of the arrays of a document, array by
\* array, in index order
RECURSIVE ArrayLeaves(_, _)
RECURSIVE ArrayLeavesKids(_, _, _)
ElementLeaves(v, path) ==
    LET at == SelectSeq([i \in 1..Len(v.kids) |-> i], LAMBDA i : ~IsContainer(v.kids[i].v))
    IN [n \in 1..Len(at) |-> IndexPath(path, at[n] - 1)]
ArrayLeaves(v, path) ==
    IF ~IsContainer(v) THEN {}
    ELSE (IF is_array(v) THEN {ElementLeaves(v, path)} ELSE {})
         \cup ArrayLeavesKids(v, path, 1)
ArrayLeavesKids(v, path, i) ==
    IF i > Len(v.kids) THEN {}
    ELSE ArrayLeaves(v.kids[i].v,
                     IF is_object(v) THEN KeyPath(path, v.kids[i].k)
                     ELSE IndexPath(path, i - 1))
         \cup ArrayLeavesKids(v, path, i + 1)
\* the leaf records yielded so far whose pointer is one of ptrs
YieldedAmong(ptrs) ==
    LET sel == SelectSeq(yielded, LAMBDA r : r.value.some /\ r.pointer \in Range(ptrs))
    IN [i \in 1..Len(sel) |-> sel[i].pointer]

\* C20: an object or array that is an element of an array never gets a
\* container record, one that is the child of an object gets exactly one,
\* and the leaf elements of an array are yielded in increasing index order.
C20_ArrayElementsGetNoContainerRecord ==
    LET ref == Ref(json, base_path)
        all == AsRefs(yielded \o pbuf)
    IN /\ \A x \in Range(all) : ~x.leaf => CountIn(all, x) <= CountIn(ref, x)
       /\ Drained => \A x \in Range(ref) : ~x.leaf => CountIn(all, x) = CountIn(ref, x)
       /\ \A ptrs \in ArrayLeaves(json, base_path) :
             /\ IsPrefix(YieldedAmong(ptrs), ptrs)
             /\ Drained => YieldedAmong(ptrs) = ptrs
C20_Witness ==
    /\ Drained
    /\ is_object(json) /\ Len(json.kids) = 1
    /\ LET a == json.kids[1].v
       IN /\ is_array(a) /\ Len(a.kids) = 2
          /\ is_object(a.kids[1].v) /\ ~IsContainer(a.kids[2].v)
          /\ AsRefs(yielded) = <<[pointer |-> IndexPath(KeyPath(base_path, json.kids[1].k), 1),
                                  leaf |-> TRUE],
                                 [pointer |-> KeyPath(base_path, json.kids[1].k), leaf |-> FALSE]>>

\* impl Display for BlockKind, the Value arm: the text of a record's value
DisplayValue(v) == IF v.some THEN v.text ELSE <<>>

\* C17: the value of a container record (absent) is rendered as a non-empty
\* placeholder, which is not the text a null leaf is rendered as.
C17_ContainerValuePlaceholder ==
    \A i \in 1..Len(yielded) :
        ~yielded[i].value.some =>
            /\ DisplayValue(yielded[i].value) # <<>>
            /\ DisplayValue(yielded[i].value) # DisplayValue(LeafRecord(Pending(jNull, <<>>), 0).value)

(***************************************************************************)
(* JsonPacket (src/models.rs): new, parse_json, print, and write.          *)
(***************************************************************************)
\* the `for (k, v) in map.iter()` loop of parse_json's jObject arm
RECURSIVE PacketObject(_, _, _, _)
PacketObject(value, i, jqueue, list) ==
    IF i > Len(value.json.kids) THEN [jqueue |-> jqueue, list |-> list]
    ELSE LET k == value.json.kids[i].k
             v == value.json.kids[i].v
             new_path == KeyPath(value.path, k)
             l1 == IF is_object(v) THEN Append(list, new_path) ELSE list
             l2 == IF is_array(v) THEN Append(l1, new_path) ELSE l1
         IN PacketObject(value, i + 1, Append(jqueue, Pending(v, new_path)), l2)

\* the `loop` of parse_json, run until the queue is empty
RECURSIVE PacketLoop(_, _)
PacketLoop(jqueue, list) ==
    IF jqueue = <<>> THEN list
    ELSE LET value == Head(jqueue)
             rest == Tail(jqueue)
         IN  IF is_object(value.json)
             THEN LET r == PacketObject(value, 1, rest, list)
                  IN PacketLoop(r.jqueue, r.list)
             ELSE IF is_array(value.json)
             THEN PacketLoop(ExpandArray(value, 1, rest), list)
             ELSE PacketLoop(rest, Append(list, value.path))

\* JsonPacket::parse_json
parse_json(json_value) == PacketLoop(<<Pending(json_value, <<>>)>>, <<>>)

Q == "\""
NO_VALUE == <<"N", "O", "_", "V", "A", "L", "U", "E">>
NO_TYPE == <<"N", "O", "_", "T", "Y", "P", "E">>

\* write: `let value = match val { .. }`
WriteValue(val) ==
    IF ~val.found THEN NO_VALUE
    ELSE CASE val.val.t = "jObject" -> <<>>
           [] val.val.t = "jArray" -> <<>>
           [] val.val.t = "jString" -> val.val.str
           [] val.val.t = "jNumber" -> to_string(val.val.num)
           [] val.val.t = "jBool" -> bool_to_string(val.val.bool)
           [] val.val.t = "jNull" -> <<"N", "U", "L", "L">>

\* write: `let type_of = match val { .. }`
WriteType(val) ==
    IF ~val.found THEN NO_TYPE
    ELSE CASE val.val.t = "jObject" -> <<"M", "a", "p">>
           [] val.val.t = "jArray" -> <<"A", "r", "r", "a", "y">>
           [] val.val.t = "jString" -> <<"S", "t", "r", "i", "n", "g">>
           [] val.val.t = "jNumber" -> <<"N", "u", "m", "b", "e", "r">>
           [] val.val.t = "jBool" -> <<"B", "o", "o", "l">>
           [] val.val.t = "jNull" -> <<"N", "u", "l", "l">>

\* write: the two format! calls that build formated_output
WriteFormat(opts, entry, val) ==
    IF ~opts.hide_type
    THEN <<Q>> \o entry \o <<Q>> \o opts.separator \o <<Q>> \o WriteType(val) \o <<Q>>
         \o opts.separator \o <<Q>> \o WriteValue(val) \o <<Q>>
    ELSE <<Q>> \o entry \o <<Q>> \o opts.separator \o <<Q>> \o WriteValue(val) \o <<Q>>

\* write: what reaches `output`.  The function ends after formated_output is
\* built; its writeln! calls are commented out.
WriteOutput(out, opts, val, line) == out

\* JsonPacket::new
PacketNew ==
    /\ ppc = "new"
    /\ plist' = parse_json(object)
    /\ ppc' = "print"
    /\ UNCHANGED <<object, cursor, options, formated, sink>>
    /\ UNCHANGED <<flatVars, scanVars, mainVars, builderVars, twinVars>>

\* JsonPacket::print, one iteration of its loop: a call of write
PrintEntry ==
    /\ ppc = "print"
    /\ cursor < Len(plist)
    /\ LET entry == plist[cursor + 1]
           data == Pointer(object, entry)
           line == WriteFormat(options, entry, data)
       IN /\ formated' = line
          /\ sink' = WriteOutput(sink, options, data, line)
    /\ cursor' = cursor + 1
    /\ UNCHANGED <<object, plist, options, ppc>>
    /\ UNCHANGED <<flatVars, scanVars, mainVars, builderVars, twinVars>>

\* JsonPacket::print, the end of its loop
PrintDone ==
    /\ ppc = "print"
    /\ cursor = Len(plist)
    /\ ppc' = "done"
    /\ UNCHANGED <<object, plist, cursor, options, formated, sink>>
    /\ UNCHANGED <<flatVars, scanVars, mainVars, builderVars, twinVars>>

\* The regex option: ".*" and "^[0-9]+$", by what they match.
Regexes == {"any", "digits"}
is_match(regex, text) ==
    IF regex = "any" THEN TRUE
    ELSE text # <<>> /\ \A i \in 1..Len(text) : IsDigit(text[i])

(***************************************************************************)
(* SpecPacket: one document flattened and printed by JsonPacket.           *)
(***************************************************************************)
InitPacket ==
    /\ \E n \in DocSizes : object \in Docs(n)
    /\ options \in [hide_type : BOOLEAN, separator : {<<",">>}, regex : Regexes]
    /\ plist = <<>> /\ cursor = 0 /\ formated = <<>> /\ sink = <<>> /\ ppc = "new"
    /\ IdleFlat /\ IdleScan /\ IdleMain /\ IdleBuilder /\ IdleTwin
NextPacket == PacketNew \/ PrintEntry \/ PrintDone
SpecPacket == InitPacket /\ [][NextPacket]_vars

\* the records print has handed to write that the regex filter (on the value
\* column) lets through
Passed == {i \in 1..cursor :
              is_match(options.regex, WriteValue(Pointer(object, plist[i])))}

\* C5: the output stage writes exactly one complete line per record, nothing
\* for a record the regex filter suppresses, and never a partial line.
C5_OneLinePerRecord ==
    /\ Len(sink) = Cardinality(Passed)
    /\ \A n \in 1..Len(sink) :
          \E i \in Passed : sink[n] = WriteFormat(options, plist[i], Pointer(object, plist[i]))

\* the line of an entry with the type field before the pointer field
TypeFirstFormat(opts, entry, val) ==
    IF ~opts.hide_type
    THEN <<Q>> \o WriteType(val) \o <<Q>> \o opts.separator \o <<Q>> \o entry \o <<Q>>
         \o opts.separator \o <<Q>> \o WriteValue(val) \o <<Q>>
    ELSE <<Q>> \o entry \o <<Q>> \o opts.separator \o <<Q>> \o WriteValue(val) \o <<Q>>

\* C18: the fields of a formatted record stand in the order type (when
\* type output is enabled), pointer, value.
C18_FieldsInFixedOrder ==
    (ppc = "print" /\ cursor > 0) =>
        formated = TypeFirstFormat(options, plist[cursor], Pointer(object, plist[cursor]))


(***************************************************************************)
(* JsonScan (src/models/assets.rs).  An item of the wrapped source is a    *)
(* byte (a one-character string) or "Err", an io::Error.                   *)
(***************************************************************************)
QUOTE == "\""
BACKSLASH == "\\"
Bytes == {QUOTE, BACKSLASH, "a", "b"}
SourceItems == Bytes \cup {"Err"}
InQuotes == "InQuotes"
OutQuotes == "OutQuotes"

\* JsonScan::new
JsonScanNew(source) ==
    /\ iter = source
    /\ prev = "None"
    /\ state = OutQuotes
    /\ offsets = <<0, 0>>
    /\ seen = <<>>
    /\ items = <<>>

\* handle_state with a fault: the previous byte is not looked at
handle_state_NoEscape(pv, st, off) ==
    IF st = InQuotes
    THEN [state |-> OutQuotes, offsets |-> <<off[1], 0>>]
    ELSE [state |-> InQuotes, offsets |-> <<0, off[2]>>]

\* JsonScan::handle_state: the state and offsets it leaves
handle_state(pv, st, off) ==
    IF pv = BACKSLASH THEN [state |-> st, offsets |-> off]
    ELSE IF st = InQuotes
         THEN [state |-> OutQuotes, offsets |-> <<off[1], 0>>]
         ELSE [state |-> InQuotes, offsets |-> <<0, off[2]>>]

\* increment_offset with a fault: the counter of the other state is advanced
increment_offset_Swapped(st, off) ==
    IF st = InQuotes THEN <<off[1], off[2] + 1>> ELSE <<off[1] + 1, off[2]>>

\* JsonScan::increment_offset
increment_offset(st, off) ==
    IF st = InQuotes THEN <<off[1] + 1, off[2]>> ELSE <<off[1], off[2] + 1>>

\* the Some(Err(e)) arm with a fault: prev is set as after a backslash byte
PrevAfterErr_Backslash == BACKSLASH

\* what the Some(Err(e)) arm of next stores in prev
PrevAfterErr == "None"

\* Iterator::next of JsonScan, the wrapped source yielding an item
ScanNext ==
    /\ iter # <<>>
    /\ LET b == Head(iter) IN
       /\ iter' = Tail(iter)
       /\ seen' = Append(seen, b)
       /\ items' = Append(items, b)
       /\ IF b = QUOTE
          THEN LET r == handle_state(prev, state, offsets)
               IN /\ state' = r.state
                  /\ offsets' = r.offsets
                  /\ prev' = b
          ELSE IF b # "Err"
          THEN /\ offsets' = increment_offset(state, offsets)
               /\ prev' = b
               /\ UNCHANGED state
          ELSE /\ offsets' = increment_offset(state, offsets)
               /\ prev' = PrevAfterErr
               /\ UNCHANGED state
    /\ UNCHANGED <<flatVars, packVars, mainVars, builderVars, twinVars>>

\* Iterator::next of JsonScan, the wrapped source being at its end
ScanEnd ==
    /\ iter = <<>>
    /\ (IF items = <<>> THEN TRUE ELSE Last(items) # "End")
    /\ items' = Append(items, "End")
    /\ UNCHANGED <<iter, prev, state, offsets, seen>>
    /\ UNCHANGED <<flatVars, packVars, mainVars, builderVars, twinVars>>

(***************************************************************************)
(* SpecScan: a scanner drained over every source of at most MaxBytes items.*)
(***************************************************************************)
Sources == UNION {[1..n -> SourceItems] : n \in 0..MaxBytes}
InitScan ==
    /\ \E source \in Sources : JsonScanNew(source)
    /\ IdleFlat /\ IdlePack /\ IdleMain /\ IdleBuilder /\ IdleTwin
NextScan == ScanNext \/ ScanEnd
SpecScan == InitScan /\ [][NextScan]_vars

\* the step consumes a quote byte
ConsumesQuote == seen' = Append(seen, QUOTE)
\* the item consumed just before is a backslash byte
AfterBackslash == seen # <<>> /\ Last(seen) = BACKSLASH
Toggled == state' # state

\* C10: a quote right after a backslash leaves the quote state alone, any
\* other quote toggles it, and after the six bytes "a\"b" the scanner is
\* outside quotes.
C10_EscapedQuoteKeepsState ==
    [][/\ (ConsumesQuote /\ AfterBackslash) => ~Toggled
       /\ (ConsumesQuote /\ ~AfterBackslash) => Toggled
       /\ seen' = <<QUOTE, "a", BACKSLASH, QUOTE, "b", QUOTE>> => state' = OutQuotes]_vars
C10_Witness ==
    /\ seen = <<QUOTE, "a", BACKSLASH, QUOTE, "b", QUOTE>>
    /\ state = OutQuotes

\* the step consumes one item of the wrapped source
ConsumesItem == seen' # seen
\* the two items consumed just before are backslash bytes
AfterTwoBackslashes ==
    /\ Len(seen) >= 2
    /\ seen[Len(seen)] = BACKSLASH /\ seen[Len(seen) - 1] = BACKSLASH
\* the counter of a quote state
Counter(st, off) == IF st = InQuotes THEN off[1] ELSE off[2]
Other(st) == IF st = InQuotes THEN OutQuotes ELSE InQuotes

\* C11: a quote that follows two backslash bytes (an escaped backslash) is
\* not an escaped quote: the scanner's quote state changes on it.
C11_QuoteAfterEscapedBackslashToggles ==
    [][(ConsumesQuote /\ AfterTwoBackslashes) => Toggled]_vars

\* C12: the counter of the current quote state counts the items consumed
\* since the scanner entered that state: a step that toggles the state
\* leaves the counter of the state entered at zero and the other counter as
\* it was, and every other step that consumes an item adds one to the
\* counter of the current state.
C12_CountersCountConsumedBytes ==
    [][ConsumesItem =>
          IF Toggled
          THEN /\ Counter(state', offsets') = 0
               /\ Counter(state, offsets') = Counter(state, offsets)
          ELSE Counter(state, offsets') = Counter(state, offsets) + 1]_vars

\* the step consumes a read error of the wrapped source
ConsumesErr == seen' = Append(seen, "Err")

\* C13: a read error of the wrapped source is yielded as it is, adds one to
\* the counter of the current quote state, leaves the other counter and the
\* quote state as they were, and the scanner goes on with the next item.
C13_ErrorPassesThrough ==
    [][ConsumesErr =>
          /\ items' = Append(items, "Err")
          /\ state' = state
          /\ Counter(state, offsets') = Counter(state, offsets) + 1
          /\ Counter(Other(state), offsets') = Counter(Other(state), offsets)
          /\ iter' = Tail(iter)]_vars
C13_Witness ==
    /\ seen = <<QUOTE, "Err", "a", QUOTE>>
    /\ items = seen
    /\ offsets = <<2, 0>>
    /\ state = OutQuotes

(***************************************************************************)
(* main and to_csv (src/main.rs, src/models.rs).  A source is named on the *)
(* command line; "-" is standard input.  The text of a line or file is     *)
(* modelled by the outcome of reading and parsing it.                      *)
(***************************************************************************)
DocA == jObject(<<[k |-> <<"a">>, v |-> jNumber(12)]>>)
DocB == jArray(<<jBool(TRUE), jNull>>)
Text(doc) == [read |-> TRUE, ok |-> TRUE, doc |-> doc]
Malformed == [read |-> TRUE, ok |-> FALSE, doc |-> jNull]
Unreadable == [read |-> FALSE, ok |-> FALSE, doc |-> jNull]
LineKinds == {Text(DocA), Text(DocB), Malformed, Unreadable}

\* the file system: none.json does not exist, bad.json is not JSON
SourceNames == {"-", "a.json", "b.json", "bad.json", "none.json"}
FileExists(f) == f # "none.json"
FileContent(f) == CASE f = "a.json" -> Text(DocA)
                    [] f = "b.json" -> Text(DocB)
                    [] OTHER -> Malformed

\* Vec::dedup_by_key(|f| *f == "-"): of consecutive elements with the same key
\* only the first is kept
RECURSIVE dedup_by_key(_)
dedup_by_key(list) ==
    IF Len(list) <= 1 THEN list
    ELSE LET front == dedup_by_key(Front(list))
         IN IF (Last(front) = "-") = (Last(list) = "-") THEN front
            ELSE Append(front, Last(list))

\* get_reader
get_reader(file_name) ==
    IF file_name = "-" THEN "Stdin"
    ELSE IF FileExists(file_name) THEN "File" ELSE "Err"

\* serde_json::from_reader on what is left of standard input: one document
from_reader_stdin(lines) ==
    IF Len(lines) = 1 /\ lines[1].read /\ lines[1].ok THEN Found(lines[1].doc)
    ELSE NotFound

\* LineDocs with a fault: the first line that does not parse ends the stream
RECURSIVE LineDocs_StopAtBadLine(_, _)
LineDocs_StopAtBadLine(lines, i) ==
    IF i > Len(lines) THEN <<>>
    ELSE IF ~lines[i].read THEN LineDocs_StopAtBadLine(lines, i + 1)
    ELSE IF ~lines[i].ok THEN <<>>
    ELSE <<lines[i].doc>> \o LineDocs_StopAtBadLine(lines, i + 1)

\* to_csv, line mode: lines().filter_map(Result::ok).filter_map(from_str ok),
\* the documents that reach for_each, from line i on
RECURSIVE LineDocs(_, _)
LineDocs(lines, i) ==
    IF i > Len(lines) THEN <<>>
    ELSE IF ~lines[i].read THEN LineDocs(lines, i + 1)
    ELSE IF ~lines[i].ok THEN LineDocs(lines, i + 1)
    ELSE <<lines[i].doc>> \o LineDocs(lines, i + 1)

\* the status to_csv returns: Ok(json!(0)), or the Err of a `?`
StatusOk == "0"
StatusErr == "Error(s) encountered"

\* to_csv: the documents it makes a JsonPacket of, and its status
to_csv(rd, file, line_mode, lines) ==
    IF rd = "File"
    THEN IF FileContent(file).ok
         THEN [docs |-> <<FileContent(file).doc>>, status |-> StatusOk]
         ELSE [docs |-> <<>>, status |-> StatusErr]
    ELSE IF line_mode
         THEN [docs |-> LineDocs(lines, 1), status |-> StatusOk]
         ELSE IF from_reader_stdin(lines).found
              THEN [docs |-> <<from_reader_stdin(lines).val>>, status |-> StatusOk]
              ELSE [docs |-> <<>>, status |-> StatusErr]

\* JsonPacket::print of one packet on the writer, from entry i on
RECURSIVE PrintFrom(_, _, _, _, _)
PrintFrom(out, opts, doc, list, i) ==
    IF i > Len(list) THEN out
    ELSE LET data == Pointer(doc, list[i])
         IN PrintFrom(WriteOutput(out, opts, data, WriteFormat(opts, list[i], data)),
                      opts, doc, list, i + 1)

\* the packets of one to_csv call printed in turn
RECURSIVE PrintDocs(_, _, _)
PrintDocs(out, opts, docs) ==
    IF docs = <<>> THEN out
    ELSE PrintDocs(PrintFrom(out, opts, Head(docs), parse_json(Head(docs)), 1),
                   opts, Tail(docs))

\* what the model records of a run
NoIdent == [some |-> FALSE, n |-> 0]
SomeIdent(n) == [some |-> TRUE, n |-> n]
Ev(kind, src, doc, status) ==
    [ev |-> kind, src |-> src, doc |-> doc, status |-> status, ident |-> NoIdent]
\* the identifier the i-th document of a to_csv call is flattened with, the
\* stream starting at `start`: JsonPacket::new takes the document alone
PacketIdent(start, i) == NoIdent
PacketEvents(src, docs, start) ==
    [i \in 1..Len(docs) |->
        [Ev("packet", src, docs[i], "") EXCEPT !.ident = PacketIdent(start, i)]]

\* matches.is_present("type"): the App defines the arguments separator,
\* line, regex, regex_column, input, output and prefix, and none named
\* "type", so no command line makes it present
is_present_type == FALSE
\* the values of --column, "none" when it is not given
RegexColumns == {"none", "key", "type", "value", "sep"}
\* the check of the regex column against the type flag panics
ColumnCheckPanics(regex_column) ==
    is_present_type /\ regex_column # "none" /\ regex_column = "type"
\* show_type, as main computes it
show_type == ~is_present_type

\* main up to the start of the loop over the inputs
MainStart ==
    /\ mpc = "start"
    /\ \E regex_column \in RegexColumns : ~ColumnCheckPanics(regex_column)
    /\ IF input # <<>>
       THEN /\ file_list' = dedup_by_key(input)
            /\ pos' = 1
            /\ mpc' = "open"
       ELSE /\ mpc' = "stdin"
            /\ UNCHANGED <<file_list, pos>>
    /\ UNCHANGED <<input, by_line, line_number, stdin, stdin_pos, reader, events, written>>
    /\ UNCHANGED <<flatVars, packVars, scanVars, builderVars, twinVars>>

\* the loop body up to `if input.is_ok()`
GetReader ==
    /\ mpc = "open"
    /\ pos <= Len(file_list)
    /\ LET file == file_list[pos]
           rd == get_reader(file)
       IN IF rd # "Err"
          THEN /\ reader' = rd
               /\ events' = Append(events, Ev("open", file, jNull, ""))
               /\ mpc' = "to_csv"
               /\ UNCHANGED pos
          ELSE /\ events' = Append(events, Ev("skip", file, jNull, ""))
               /\ pos' = pos + 1
               /\ UNCHANGED <<reader, mpc>>
    /\ UNCHANGED <<input, by_line, line_number, stdin, stdin_pos, file_list, written>>
    /\ UNCHANGED <<flatVars, packVars, scanVars, builderVars, twinVars>>

\* the call of to_csv on the source just opened, and its status
ToCsv ==
    /\ mpc = "to_csv"
    /\ LET file == file_list[pos]
           r == to_csv(reader, file, by_line, SubSeq(stdin, stdin_pos + 1, Len(stdin)))
       IN /\ events' = events \o PacketEvents(file, r.docs, line_number)
                              \o <<Ev("done", file, jNull, r.status)>>
          /\ written' = PrintDocs(written, options, r.docs)
    /\ stdin_pos' = IF reader = "Stdin" THEN Len(stdin) ELSE stdin_pos
    /\ pos' = pos + 1
    /\ mpc' = "open"
    /\ reader' = "none"
    /\ UNCHANGED <<input, by_line, line_number, stdin, file_list>>
    /\ UNCHANGED <<flatVars, packVars, scanVars, builderVars, twinVars>>

\* the end of the loop over the inputs
LoopEnd ==
    /\ mpc = "open"
    /\ pos > Len(file_list)
    /\ mpc' = "done"
    /\ UNCHANGED <<input, by_line, line_number, stdin, stdin_pos, file_list, pos, reader, events, written>>
    /\ UNCHANGED <<flatVars, packVars, scanVars, builderVars, twinVars>>

\* the None arm: no input was named, standard input is read
StdinOnly ==
    /\ mpc = "stdin"
    /\ LET r == to_csv("Stdin", "-", by_line, SubSeq(stdin, stdin_pos + 1, Len(stdin)))
       IN /\ events' = events \o <<Ev("open", "-", jNull, "")>> \o PacketEvents("-", r.docs, line_number)
                              \o <<Ev("done", "-", jNull, r.status)>>
          /\ written' = PrintDocs(written, options, r.docs)
    /\ stdin_pos' = Len(stdin)
    /\ mpc' = "done"
    /\ UNCHANGED <<input, by_line, line_number, stdin, file_list, pos, reader>>
    /\ UNCHANGED <<flatVars, packVars, scanVars, builderVars, twinVars>>

(***************************************************************************)
(* SpecMain: a run of main over a list of distinct sources.                *)
(***************************************************************************)
Distinct(list) == \A i, j \in 1..Len(list) : i # j => list[i] # list[j]
InputLists == {l \in UNION {[1..n -> SourceNames] : n \in 0..MaxInputs} : Distinct(l)}
\* the values of --line: the identifier of the first document
StartOffsets == {0, 5}
Streams == UNION {[1..n -> LineKinds] : n \in 0..MaxLines}
InitMain ==
    /\ input \in InputLists
    /\ by_line \in BOOLEAN
    /\ line_number \in (IF by_line THEN StartOffsets ELSE {0})
    /\ stdin \in Streams
    /\ stdin_pos = 0 /\ file_list = <<>> /\ pos = 0 /\ reader = "none"
    /\ mpc = "start" /\ events = <<>> /\ written = <<>>
    /\ IdleFlat /\ IdlePack /\ IdleScan /\ IdleBuilder /\ IdleTwin
NextMain == MainStart \/ GetReader \/ ToCsv \/ LoopEnd \/ StdinOnly
SpecMain == InitMain /\ [][NextMain]_vars

\* the sources main tried to open, in order
RECURSIVE Attempted(_)
Attempted(evs) ==
    IF evs = <<>> THEN <<>>
    ELSE (IF Head(evs).ev \in {"open", "skip"} THEN <<Head(evs).src>> ELSE <<>>)
         \o Attempted(Tail(evs))
\* every event after an "open" up to its "done" belongs to the opened source
OneAtATime ==
    \A i \in 1..Len(events) :
        events[i].ev \in {"packet", "done"} =>
            \E o \in 1..(i - 1) :
                /\ events[o].ev = "open" /\ events[o].src = events[i].src
                /\ \A m \in (o + 1)..(i - 1) : events[m].ev = "packet"

\* C3: every source of the list is processed exactly once, in the order
\* given, one source being finished before the next is opened.
C3_EverySourceInOrder ==
    /\ OneAtATime
    /\ (mpc = "done" /\ input # <<>>) => Attempted(events) = input

\* the documents of the packet events among evs
RECURSIVE PacketDocs(_)
PacketDocs(evs) ==
    IF evs = <<>> THEN <<>>
    ELSE (IF Head(evs).ev = "packet" THEN <<Head(evs).doc>> ELSE <<>>)
         \o PacketDocs(Tail(evs))
WellFormed(lines) ==
    LET sel == SelectSeq(lines, LAMBDA l : l.read /\ l.ok)
    IN [i \in 1..Len(sel) |-> sel[i].doc]
LineModeCall ==
    /\ by_line
    /\ (mpc = "to_csv" /\ reader = "Stdin") \/ mpc = "stdin"
    /\ events' # events

\* C4: in line mode a line that does not parse is skipped: the documents
\* flattened are those of the well-formed lines, in line order, and to_csv
\* ends with the success status.
C4_LineModeSkipsBadLines ==
    [][LineModeCall =>
          /\ PacketDocs(SubSeq(events', Len(events) + 1, Len(events')))
                = WellFormed(SubSeq(stdin, stdin_pos + 1, Len(stdin)))
          /\ Last(events').ev = "done" /\ Last(events').status = StatusOk]_vars
C4_Witness ==
    /\ by_line
    /\ stdin = <<Text(DocA), Malformed, Text(DocB)>>
    /\ stdin_pos = 3
    /\ PacketDocs(events) = <<DocA, DocB>>
    /\ Last(events).status = StatusOk

\* the packets a line-mode pass over standard input made in this step
NewPackets == SelectSeq(SubSeq(events', Len(events) + 1, Len(events')),
                        LAMBDA e : e.ev = "packet")

\* C14: in line mode the documents of the stream get the identifiers
\* line_number, line_number + 1, ... in input order, and the records of a
\* document are flattened under its identifier.
C14_LineIdentifiersIncrease ==
    [][LineModeCall =>
          \A i \in 1..Len(NewPackets) :
              NewPackets[i].ident = SomeIdent(line_number + i - 1)]_vars

\* the source at place i of the input list failed: it could not be opened,
\* or to_csv returned an error for it
FailedSource(src) ==
    \E e \in 1..Len(events) :
        /\ events[e].src = src
        /\ \/ events[e].ev = "skip"
           \/ events[e].ev = "done" /\ events[e].status = StatusErr
Failed(i) == FailedSource(input[i])
HasPackets(src) == \E e \in 1..Len(events) : events[e].ev = "packet" /\ events[e].src = src
WasAttempted(src) ==
    \E e \in 1..Len(events) : events[e].ev \in {"open", "skip"} /\ events[e].src = src

\* C15: a source of the input list that fails gets no document flattened,
\* and the source after it in the list is still processed.
C15_FailureDoesNotStopRun ==
    (mpc = "done" /\ input # <<>>) =>
        \A i \in 1..Len(input) :
            Failed(i) => /\ ~HasPackets(input[i])
                         /\ i < Len(input) => WasAttempted(input[i + 1])

\* the same over the list the loop iterates: a failure at place i of
\* file_list is followed by the attempt of place i + 1
LoopContinuesAfterFailure ==
    mpc = "done" =>
        \A i \in 1..Len(file_list) :
            /\ WasAttempted(file_list[i])
            /\ FailedSource(file_list[i]) => ~HasPackets(file_list[i])

(***************************************************************************)
(* OutputBuilder (src/models/assets.rs): five slots, one per kind of       *)
(* block, filled by the setters in any order and read out by done().       *)
(***************************************************************************)
NoBlock == [kind |-> "None", n |-> 0, text |-> <<>>, jtype |-> "", some |-> FALSE]
BlockIdent(id) == [NoBlock EXCEPT !.kind = "Ident", !.n = id]
BlockDelimiter(d) == [NoBlock EXCEPT !.kind = "Delimiter", !.text = <<d>>]
BlockType(t) == [NoBlock EXCEPT !.kind = "Type", !.jtype = t]
BlockPointer(p) == [NoBlock EXCEPT !.kind = "Pointer", !.text = p]
BlockValue(v) == [NoBlock EXCEPT !.kind = "Value", !.text = v.text, !.some = v.some]

\* OutputBuilder::new: every slot is None
builder_new == [i \in 1..5 |-> NoBlock]
\* the slot a setter writes: blocks[0] .. blocks[4] of the source are 1 .. 5
Slot(kind) == CASE kind = "Ident" -> 1 [] kind = "Delimiter" -> 2 [] kind = "Type" -> 3
                [] kind = "Pointer" -> 4 [] kind = "Value" -> 5
\* OutputBuilder::ident, delim, type_of, pointer, value
builder_set(b, block) == [b EXCEPT ![Slot(block.kind)] = block]
\* OutputBuilder::done: the blocks that are Some, in slot order
builder_done(b) == SelectSeq(b, LAMBDA x : x.kind # "None")

\* the arguments the setters are called with
BuilderArgs ==
    {BlockIdent(0), BlockIdent(7), BlockDelimiter(","), BlockType("Object"),
     BlockType("Null"), BlockPointer(<<>>), BlockPointer(<<"/", "a">>),
     BlockValue(None), BlockValue(Some(<<"1">>))}
DoneCall == [NoBlock EXCEPT !.kind = "done"]
BuilderOpen == IF called = <<>> THEN TRUE ELSE Last(called) # DoneCall

\* one setter call on the builder
BuilderSet ==
    /\ BuilderOpen
    /\ Len(called) < MaxCalls
    /\ \E block \in BuilderArgs :
          /\ blocks' = builder_set(blocks, block)
          /\ called' = Append(called, block)
    /\ UNCHANGED output
    /\ UNCHANGED <<flatVars, packVars, scanVars, mainVars, twinVars>>

\* the call of done()
BuilderDone ==
    /\ BuilderOpen
    /\ output' = builder_done(blocks)
    /\ called' = Append(called, DoneCall)
    /\ UNCHANGED blocks
    /\ UNCHANGED <<flatVars, packVars, scanVars, mainVars, twinVars>>

(***************************************************************************)
(* SpecBuilder: a builder given at most MaxCalls setter calls, then done.  *)
(***************************************************************************)
InitBuilder ==
    /\ blocks = builder_new /\ called = <<>> /\ output = <<>>
    /\ IdleFlat /\ IdlePack /\ IdleScan /\ IdleMain /\ IdleTwin
NextBuilder == BuilderSet \/ BuilderDone
SpecBuilder == InitBuilder /\ [][NextBuilder]_vars

\* the block the last call of a setter of this kind gave, if there was one
LastSet(kind) ==
    LET at == {i \in 1..Len(called) : called[i].kind = kind}
    IN IF at = {} THEN <<>>
       ELSE <<called[CHOOSE i \in at : \A j \in at : j <= i]>>
\* done() gives the blocks set, in the order identifier, delimiter, type,
\* pointer, value, whatever the order of the calls, a kind never set being
\* left out
BuilderKeepsOrder ==
    (~BuilderOpen) =>
        output = LastSet("Ident") \o LastSet("Delimiter") \o LastSet("Type")
                 \o LastSet("Pointer") \o LastSet("Value")
BuilderWitness ==
    /\ called = <<BlockValue(None), BlockPointer(<<"/", "a">>), BlockType("Object"), DoneCall>>
    /\ output = <<BlockType("Object"), BlockPointer(<<"/", "a">>), BlockValue(None)>>

(***************************************************************************)
(* The lazy iterator against the eager traversal, and the scanner against  *)
(* the source it wraps.                                                    *)
(***************************************************************************)
\* the pointers the iterator has yielded, in order
YieldedPointers == [i \in 1..Len(yielded) |-> yielded[i].pointer]

\* C22: drained with an empty base path, the lazy iterator has yielded the
\* pointers of JsonPacket::parse_json, the same ones in the same order.
C22_LazyMatchesEager ==
    (Drained /\ base_path = <<>>) => YieldedPointers = parse_json(json)

\* the items the source had at the start: those consumed and those left
SourceOf(consumed, left) == consumed \o left
\* the item before the error just consumed is a backslash byte
ErrAfterBackslash ==
    /\ Len(seen) >= 2
    /\ seen[Len(seen)] = "Err" /\ seen[Len(seen) - 1] = BACKSLASH

\* what holds of every state of the scanner: the items yielded are the
\* items consumed, and the end is yielded only at the end of the source
C23_State ==
    \/ items = seen
    \/ items = Append(seen, "End") /\ iter = <<>>
\* what holds of every call of next()
C23_Step ==
    /\ SourceOf(seen', iter') = SourceOf(seen, iter)
    /\ (ConsumesItem /\ ~ConsumesQuote) => state' = state
    /\ (~ConsumesItem) => state' = state
    /\ (ConsumesQuote /\ seen # <<>> /\ Last(seen) = "Err") => Toggled

\* C23: the scanner yields the items of its source, the same bytes and
\* errors in the same order, and ends when the source ends; a byte that
\* is not a quote, and an error, leave the quote state as it was; a quote
\* that follows an error toggles the state, also when the byte before the
\* error was a backslash.
C23_TransparentScanner == []C23_State /\ [][C23_Step]_vars
C23_Witness ==
    /\ seen = <<QUOTE, BACKSLASH, "Err", QUOTE>>
    /\ items = Append(seen, "End")
    /\ state = OutQuotes

(***************************************************************************)
(* SpecTwin: the same document flattened twice, by two JsonPointer values  *)
(* made with the same identifier and base path, the second run starting    *)
(* when the first has made all its calls.                                  *)
(***************************************************************************)
Reverse(seq) == [i \in 1..Len(seq) |-> seq[Len(seq) + 1 - i]]

\* map.iter() with a fault: the order of the entries depends on the run, as
\* that of a hash map with a seed taken at start
map_iter_Seeded(kids, run) == IF run = 2 THEN Reverse(kids) ELSE kids

\* map.iter() of serde_json::Map in run `run`: the entries in the order the
\* map keeps them, which is the same in every run
map_iter(kids, run) == kids

\* the document as run `run` iterates it
RECURSIVE Iterated(_, _)
Iterated(v, run) ==
    IF ~IsContainer(v) THEN v
    ELSE LET ks == IF is_object(v) THEN map_iter(v.kids, run) ELSE v.kids
         IN [v EXCEPT !.kids = [i \in 1..Len(ks) |->
                                   [k |-> ks[i].k, v |-> Iterated(ks[i].v, run)]]]

\* Iterator::next of the second JsonPointer, one call
IterNext2 ==
    LET r == ParseLoop(queue2, pbuf2, ident)
    IN  /\ nones > MaxNones
        /\ nones2 = 0
        /\ queue2' = r.queue
        /\ IF r.pbuf = <<>>
           THEN /\ pbuf2' = r.pbuf
                /\ nones2' = nones2 + 1
                /\ UNCHANGED yielded2
           ELSE /\ yielded2' = Append(yielded2, r.pbuf[PopIndex(r.pbuf)])
                /\ pbuf2' = [i \in 1..(Len(r.pbuf) - 1) |->
                                IF i < PopIndex(r.pbuf) THEN r.pbuf[i] ELSE r.pbuf[i + 1]]
                /\ UNCHANGED nones2
        /\ UNCHANGED <<flatVars, packVars, scanVars, mainVars, builderVars>>

InitTwin ==
    /\ \E n \in DocSizes : \E j \in Docs(n), b \in BasePaths, id \in Idents :
          /\ JsonPointerNew(Iterated(j, 1), id, b)
          /\ queue2 = <<Pending(Iterated(j, 2), b)>>
    /\ pbuf2 = <<>> /\ yielded2 = <<>> /\ nones2 = 0
    /\ IdlePack /\ IdleScan /\ IdleMain /\ IdleBuilder
NextTwin == IterNext \/ IterNext2
SpecTwin == InitTwin /\ [][NextTwin]_vars

\* what a record shows: identifier, pointer, type and value
Visible(r) == [ident |-> r.ident, pointer |-> r.pointer, jtype |-> r.jtype, value |-> r.value]
VisibleSeq(recs) == [i \in 1..Len(recs) |-> Visible(recs[i])]

====
